---- MODULE Spec2Model ----
(***************************************************************************)
(* Model of gtk/TorrentCellRenderer.cc: the cell renderer that draws one   *)
(* torrent row (icon, name, progress bar, status strings) in a compact or  *)
(* a full layout.                                                          *)
(*                                                                         *)
(* Conventions:                                                            *)
(*   - a string is a sequence of text pieces (the pieces of a format       *)
(*     string and its formatted arguments), so that "starts with" and      *)
(*     "contains" are sequence operations;                                 *)
(*   - a double in [0,1] (percentDone, ...) is kept in thousandths;        *)
(*   - a text scale is kept in tenths (1.0 is 10, SmallScale 0.9 is 9);    *)
(*   - a rectangle is [x, y, width, height] as Gdk::Rectangle.             *)
(***************************************************************************)
EXTENDS Integers, Sequences, FiniteSets, TLC

VARIABLES
    torrent,              \* Impl::torrent property: NULL or a tr_torrent
    stat,                 \* tr_torrentStatCached(torrent): the cached tr_stat
    bar_height,           \* Impl::bar_height property
    upload_speed_KBps,    \* Impl::upload_speed_KBps ("piece-upload-speed")
    download_speed_KBps,  \* Impl::download_speed_KBps ("piece-download-speed")
    compact,              \* Impl::compact property
    padding,              \* Gtk::CellRenderer padding of renderer_: [xpad, ypad]
    text_renderer_,       \* Gtk::CellRendererText properties
    progress_renderer_,   \* Gtk::CellRendererProgress properties
    icon_renderer_,       \* Gtk::CellRendererPixbuf properties
    out,                  \* the caller's (minimum, natural) output arguments
    call,                 \* the request just served: routine run, areas, draws
    ignore_errors,        \* argument of a direct getStatusString call
    result                \* value returned by a direct string-function call

vars == <<torrent, stat, bar_height, upload_speed_KBps, download_speed_KBps,
          compact, padding, text_renderer_, progress_renderer_, icon_renderer_,
          out, call, ignore_errors, result>>

public == <<torrent, stat, bar_height, upload_speed_KBps, download_speed_KBps,
            compact, padding>>

subrenderers == <<text_renderer_, progress_renderer_, icon_renderer_>>

(***************************************************************************)
(* Program constants                                                       *)
(***************************************************************************)
DefaultBarHeight == 12
CompactBarWidth == 50
SmallScale == 9
NormalScale == 10
GUI_PAD == 6
GUI_PAD_SMALL == 3
CompactIconSize == "ICON_SIZE_MENU"
FullIconSize == "ICON_SIZE_DND"

NULL == [nullptr |-> TRUE]

(***************************************************************************)
(* Bounds of the model                                                     *)
(***************************************************************************)
MaxPeers == 1
MaxPad == 1

Activities == {"TR_STATUS_STOPPED", "TR_STATUS_CHECK_WAIT", "TR_STATUS_CHECK",
               "TR_STATUS_DOWNLOAD_WAIT", "TR_STATUS_DOWNLOAD",
               "TR_STATUS_SEED_WAIT", "TR_STATUS_SEED"}

Errors == {"TR_STAT_OK", "TR_STAT_TRACKER_WARNING", "TR_STAT_TRACKER_ERROR",
           "TR_STAT_LOCAL_ERROR"}


(***************************************************************************)
(* Sequence helpers                                                        *)
(***************************************************************************)
StartsWith(s, p) == Len(p) <= Len(s) /\ SubSeq(s, 1, Len(p)) = p

EndsWith(s, p) == Len(p) <= Len(s) /\ SubSeq(s, Len(s) - Len(p) + 1, Len(s)) = p

Contains(s, p) == \E i \in 0..(Len(s) - Len(p)) : SubSeq(s, i + 1, i + Len(p)) = p

Max(a, b) == IF a >= b THEN a ELSE b

(***************************************************************************)
(* Formatting helpers of libtransmission / Utils (collaborators)           *)
(***************************************************************************)
tr_formatter_speed_KBps(KBps) == <<ToString(KBps), " kB/s">>

tr_strlratio(ratio) == <<ToString(ratio \div 1000), ".", ToString((ratio % 1000) \div 10)>>

tr_strpercent(permille_times_100) == <<ToString(permille_times_100 \div 1000)>>

tr_strlsize(bytes) == <<ToString(bytes), " B">>

tr_format_time_left(seconds) == <<ToString(seconds), " seconds remaining">>

tr_truncd(permille_times_100) == <<ToString(permille_times_100 \div 1000), ".",
                                   ToString((permille_times_100 % 1000) \div 100)>>

(***************************************************************************)
(* Status and progress strings                                             *)
(***************************************************************************)
\* variant: the downloading form is chosen only when the torrent is no seed
getProgressString_SeedBeforeDone(tor, total_size, st) ==
    LET isDone == st.leftUntilDone = 0
        haveTotal == st.haveUnchecked + st.haveValid
        isSeed == st.haveValid >= total_size
        hasSeedRatio == tor.hasSeedRatio
        seedRatio == tor.seedRatio
        gstr ==
            IF ~isDone /\ ~isSeed THEN
                tr_strlsize(haveTotal) \o <<" of ">> \o tr_strlsize(st.sizeWhenDone)
                    \o <<" (">> \o tr_strpercent(st.percentDone * 100) \o <<"%)">>
            ELSE IF ~isSeed /\ hasSeedRatio THEN
                tr_strlsize(haveTotal) \o <<" of ">> \o tr_strlsize(total_size)
                    \o <<" (">> \o tr_strpercent(st.percentComplete * 100)
                    \o <<"%), uploaded ">> \o tr_strlsize(st.uploadedEver)
                    \o <<" (Ratio: ">> \o tr_strlratio(st.ratio)
                    \o <<", Goal: ">> \o tr_strlratio(seedRatio) \o <<")">>
            ELSE IF ~isSeed THEN
                tr_strlsize(haveTotal) \o <<" of ">> \o tr_strlsize(total_size)
                    \o <<" (">> \o tr_strpercent(st.percentComplete * 100)
                    \o <<"%), uploaded ">> \o tr_strlsize(st.uploadedEver)
                    \o <<" (Ratio: ">> \o tr_strlratio(st.ratio) \o <<")">>
            ELSE IF hasSeedRatio THEN
                tr_strlsize(total_size) \o <<", uploaded ">>
                    \o tr_strlsize(st.uploadedEver)
                    \o <<" (Ratio: ">> \o tr_strlratio(st.ratio)
                    \o <<", Goal: ">> \o tr_strlratio(seedRatio) \o <<")">>
            ELSE
                tr_strlsize(total_size) \o <<", uploaded ">>
                    \o tr_strlsize(st.uploadedEver)
                    \o <<" (Ratio: ">> \o tr_strlratio(st.ratio) \o <<")">>
    IN  IF st.activity = "TR_STATUS_DOWNLOAD"
           \/ (hasSeedRatio /\ st.activity = "TR_STATUS_SEED")
        THEN gstr \o <<" - ">>
                 \o (IF st.eta < 0 THEN <<"Remaining time unknown">>
                     ELSE tr_format_time_left(st.eta))
        ELSE gstr

getProgressString(tor, total_size, st) ==
    LET isDone == st.leftUntilDone = 0
        haveTotal == st.haveUnchecked + st.haveValid
        isSeed == st.haveValid >= total_size
        hasSeedRatio == tor.hasSeedRatio
        seedRatio == tor.seedRatio
        gstr ==
            IF ~isDone THEN
                tr_strlsize(haveTotal) \o <<" of ">> \o tr_strlsize(st.sizeWhenDone)
                    \o <<" (">> \o tr_strpercent(st.percentDone * 100) \o <<"%)">>
            ELSE IF ~isSeed /\ hasSeedRatio THEN
                tr_strlsize(haveTotal) \o <<" of ">> \o tr_strlsize(total_size)
                    \o <<" (">> \o tr_strpercent(st.percentComplete * 100)
                    \o <<"%), uploaded ">> \o tr_strlsize(st.uploadedEver)
                    \o <<" (Ratio: ">> \o tr_strlratio(st.ratio)
                    \o <<", Goal: ">> \o tr_strlratio(seedRatio) \o <<")">>
            ELSE IF ~isSeed THEN
                tr_strlsize(haveTotal) \o <<" of ">> \o tr_strlsize(total_size)
                    \o <<" (">> \o tr_strpercent(st.percentComplete * 100)
                    \o <<"%), uploaded ">> \o tr_strlsize(st.uploadedEver)
                    \o <<" (Ratio: ">> \o tr_strlratio(st.ratio) \o <<")">>
            ELSE IF hasSeedRatio THEN
                tr_strlsize(total_size) \o <<", uploaded ">>
                    \o tr_strlsize(st.uploadedEver)
                    \o <<" (Ratio: ">> \o tr_strlratio(st.ratio)
                    \o <<", Goal: ">> \o tr_strlratio(seedRatio) \o <<")">>
            ELSE
                tr_strlsize(total_size) \o <<", uploaded ">>
                    \o tr_strlsize(st.uploadedEver)
                    \o <<" (Ratio: ">> \o tr_strlratio(st.ratio) \o <<")">>
    IN  IF st.activity = "TR_STATUS_DOWNLOAD"
           \/ (hasSeedRatio /\ st.activity = "TR_STATUS_SEED")
        THEN gstr \o <<" - ">>
                 \o (IF st.eta < 0 THEN <<"Remaining time unknown">>
                     ELSE tr_format_time_left(st.eta))
        ELSE gstr

\* variant: the speeds are read from the snapshot
getShortTransferString_SnapshotSpeeds(tor, st, uploadSpeed_KBps, downloadSpeed_KBps) ==
    LET have_meta == tor.hasMetadata
        have_down == have_meta /\ (st.peersSendingToUs > 0 \/ st.webseedsSendingToUs > 0)
        have_up == have_meta /\ st.peersGettingFromUs > 0
    IN  IF have_down THEN
            tr_formatter_speed_KBps(st.pieceDownloadSpeed_KBps) \o <<" v  ">>
                \o tr_formatter_speed_KBps(st.pieceUploadSpeed_KBps) \o <<" ^">>
        ELSE IF have_up THEN
            tr_formatter_speed_KBps(st.pieceUploadSpeed_KBps) \o <<" ^">>
        ELSE IF st.isStalled THEN <<"Stalled">>
        ELSE <<>>

\* "{download_speed} (down arrow)  {upload_speed} (up arrow)"
getShortTransferString(tor, st, uploadSpeed_KBps, downloadSpeed_KBps) ==
    LET have_meta == tor.hasMetadata
        have_down == have_meta /\ (st.peersSendingToUs > 0 \/ st.webseedsSendingToUs > 0)
        have_up == have_meta /\ st.peersGettingFromUs > 0
    IN  IF have_down THEN
            tr_formatter_speed_KBps(downloadSpeed_KBps) \o <<" v  ">>
                \o tr_formatter_speed_KBps(uploadSpeed_KBps) \o <<" ^">>
        ELSE IF have_up THEN
            tr_formatter_speed_KBps(uploadSpeed_KBps) \o <<" ^">>
        ELSE IF st.isStalled THEN <<"Stalled">>
        ELSE <<>>

getShortStatusString(tor, st, uploadSpeed_KBps, downloadSpeed_KBps) ==
    CASE st.activity = "TR_STATUS_STOPPED" ->
            IF st.finished THEN <<"Finished">> ELSE <<"Paused">>
      [] st.activity = "TR_STATUS_CHECK_WAIT" -> <<"Queued for verification">>
      [] st.activity = "TR_STATUS_DOWNLOAD_WAIT" -> <<"Queued for download">>
      [] st.activity = "TR_STATUS_SEED_WAIT" -> <<"Queued for seeding">>
      [] st.activity = "TR_STATUS_CHECK" ->
            <<"Verifying local data (">> \o tr_truncd(st.recheckProgress * 100)
                \o <<"% tested)">>
      [] st.activity \in {"TR_STATUS_DOWNLOAD", "TR_STATUS_SEED"} ->
            getShortTransferString(tor, st, uploadSpeed_KBps, downloadSpeed_KBps)
                \o <<" ">> \o <<"Ratio: ">> \o tr_strlratio(st.ratio)
      [] OTHER -> <<>>

\* std::nullopt is the empty sequence: every error message is non-empty
getErrorString(st) ==
    CASE st.error = "TR_STAT_TRACKER_WARNING" ->
            <<"Tracker warning: '", st.errorString, "'">>
      [] st.error = "TR_STAT_TRACKER_ERROR" ->
            <<"Tracker Error: '", st.errorString, "'">>
      [] st.error = "TR_STAT_LOCAL_ERROR" ->
            <<"Local error: '", st.errorString, "'">>
      [] OTHER -> <<>>

\* what a call returns when g_assert_not_reached() aborts it
AssertNotReached == <<"g_assert_not_reached">>

Plural(n, one, many) == IF n = 1 THEN one ELSE many

\* variant: the switch has no case for TR_STATUS_SEED_WAIT
getActivityString_NoSeedWait(tor, st, uploadSpeed_KBps, downloadSpeed_KBps) ==
    CASE st.activity \in {"TR_STATUS_STOPPED", "TR_STATUS_CHECK_WAIT", "TR_STATUS_CHECK",
                          "TR_STATUS_DOWNLOAD_WAIT"} ->
            getShortStatusString(tor, st, uploadSpeed_KBps, downloadSpeed_KBps)
      [] st.activity = "TR_STATUS_DOWNLOAD" ->
            IF ~tor.hasMetadata THEN
                <<"Downloading metadata from ", ToString(st.peersConnected),
                  Plural(st.peersConnected, " connected peer (", " connected peers (")>>
                    \o tr_strpercent(st.metadataPercentComplete * 100) \o <<"% done)">>
            ELSE IF st.peersSendingToUs # 0 /\ st.webseedsSendingToUs # 0 THEN
                <<"Downloading from ",
                  ToString(st.peersSendingToUs + st.webseedsSendingToUs), " of ",
                  ToString(st.peersConnected + st.webseedsSendingToUs),
                  Plural(st.peersConnected + st.webseedsSendingToUs,
                         " connected peer and webseed", " connected peers and webseeds")>>
            ELSE IF st.webseedsSendingToUs # 0 THEN
                <<"Downloading from ", ToString(st.webseedsSendingToUs),
                  Plural(st.webseedsSendingToUs, " webseed", " webseeds")>>
            ELSE
                <<"Downloading from ", ToString(st.peersSendingToUs), " of ",
                  ToString(st.peersConnected),
                  Plural(st.peersConnected, " connected peer", " connected peers")>>
      [] st.activity = "TR_STATUS_SEED" ->
            <<"Seeding to ", ToString(st.peersGettingFromUs), " of ",
              ToString(st.peersConnected),
              Plural(st.peersConnected, " connected peer", " connected peers")>>
      [] OTHER -> AssertNotReached

getActivityString(tor, st, uploadSpeed_KBps, downloadSpeed_KBps) ==
    CASE st.activity \in {"TR_STATUS_STOPPED", "TR_STATUS_CHECK_WAIT", "TR_STATUS_CHECK",
                          "TR_STATUS_DOWNLOAD_WAIT", "TR_STATUS_SEED_WAIT"} ->
            getShortStatusString(tor, st, uploadSpeed_KBps, downloadSpeed_KBps)
      [] st.activity = "TR_STATUS_DOWNLOAD" ->
            IF ~tor.hasMetadata THEN
                <<"Downloading metadata from ", ToString(st.peersConnected),
                  Plural(st.peersConnected, " connected peer (", " connected peers (")>>
                    \o tr_strpercent(st.metadataPercentComplete * 100) \o <<"% done)">>
            ELSE IF st.peersSendingToUs # 0 /\ st.webseedsSendingToUs # 0 THEN
                <<"Downloading from ",
                  ToString(st.peersSendingToUs + st.webseedsSendingToUs), " of ",
                  ToString(st.peersConnected + st.webseedsSendingToUs),
                  Plural(st.peersConnected + st.webseedsSendingToUs,
                         " connected peer and webseed", " connected peers and webseeds")>>
            ELSE IF st.webseedsSendingToUs # 0 THEN
                <<"Downloading from ", ToString(st.webseedsSendingToUs),
                  Plural(st.webseedsSendingToUs, " webseed", " webseeds")>>
            ELSE
                <<"Downloading from ", ToString(st.peersSendingToUs), " of ",
                  ToString(st.peersConnected),
                  Plural(st.peersConnected, " connected peer", " connected peers")>>
      [] st.activity = "TR_STATUS_SEED" ->
            <<"Seeding to ", ToString(st.peersGettingFromUs), " of ",
              ToString(st.peersConnected),
              Plural(st.peersConnected, " connected peer", " connected peers")>>
      [] OTHER -> AssertNotReached

\* variant: the activity string comes first and the error is appended
getStatusString_ActivityFirst(tor, st, uploadSpeed_KBps, downloadSpeed_KBps, ignore) ==
    LET activity_str == getActivityString(tor, st, uploadSpeed_KBps, downloadSpeed_KBps)
        error_str == IF ignore THEN <<>> ELSE getErrorString(st)
        status_str == activity_str \o error_str
        buf == getShortTransferString(tor, st, uploadSpeed_KBps, downloadSpeed_KBps)
    IN  IF activity_str = AssertNotReached THEN AssertNotReached
        ELSE IF st.activity \notin {"TR_STATUS_CHECK_WAIT", "TR_STATUS_CHECK",
                                    "TR_STATUS_DOWNLOAD_WAIT", "TR_STATUS_SEED_WAIT",
                                    "TR_STATUS_STOPPED"}
                /\ buf # <<>>
        THEN status_str \o <<" - ">> \o buf
        ELSE status_str

\* value_or() evaluates its argument first, so getActivityString always runs
getStatusString(tor, st, uploadSpeed_KBps, downloadSpeed_KBps, ignore) ==
    LET activity_str == getActivityString(tor, st, uploadSpeed_KBps, downloadSpeed_KBps)
        error_str == IF ignore THEN <<>> ELSE getErrorString(st)
        status_str == IF error_str # <<>> THEN error_str ELSE activity_str
        buf == getShortTransferString(tor, st, uploadSpeed_KBps, downloadSpeed_KBps)
    IN  IF activity_str = AssertNotReached THEN AssertNotReached
        ELSE IF st.activity \notin {"TR_STATUS_CHECK_WAIT", "TR_STATUS_CHECK",
                                    "TR_STATUS_DOWNLOAD_WAIT", "TR_STATUS_SEED_WAIT",
                                    "TR_STATUS_STOPPED"}
                /\ buf # <<>>
        THEN status_str \o <<" - ">> \o buf
        ELSE status_str

(***************************************************************************)
(* Torrents and statistics snapshots supplied by the core                  *)
(***************************************************************************)
MkTorrent(hasMetadata, hasSeedRatio) ==
    [name |-> <<"ubuntu.iso">>,
     hasMetadata |-> hasMetadata,
     hasSeedRatio |-> hasSeedRatio,
     seedRatio |-> 2000,
     totalSize |-> 100,
     files |-> IF hasMetadata THEN << <<"ubuntu.iso">> >> ELSE <<>>]

BaseStat ==
    [activity |-> "TR_STATUS_STOPPED", error |-> "TR_STAT_OK", errorString |-> "",
     finished |-> FALSE, isStalled |-> FALSE,
     peersConnected |-> 0, peersSendingToUs |-> 0, webseedsSendingToUs |-> 0,
     peersGettingFromUs |-> 0,
     recheckProgress |-> 500, metadataPercentComplete |-> 250, ratio |-> 1500,
     pieceUploadSpeed_KBps |-> 3, pieceDownloadSpeed_KBps |-> 3,
     leftUntilDone |-> 40, haveValid |-> 50, haveUnchecked |-> 10,
     sizeWhenDone |-> 100, percentDone |-> 600, percentComplete |-> 600,
     seedRatioPercentDone |-> 750, uploadedEver |-> 150, eta |-> 60]

ErrorText(e) == IF e = "TR_STAT_OK" THEN "" ELSE "No space left on device"

\* a torrent that seeds has all its data
WithProgress(st) ==
    IF st.activity \in {"TR_STATUS_SEED", "TR_STATUS_SEED_WAIT"}
    THEN [st EXCEPT !.leftUntilDone = 0, !.haveValid = 100, !.haveUnchecked = 0,
                    !.percentDone = 1000, !.percentComplete = 1000]
    ELSE st

\* the snapshots the string functions are called with directly
StatusStats ==
    {WithProgress([BaseStat EXCEPT !.activity = a, !.error = e,
                                   !.errorString = ErrorText(e),
                                   !.finished = f, !.isStalled = s,
                                   !.peersSendingToUs = ps,
                                   !.webseedsSendingToUs = ws,
                                   !.peersGettingFromUs = pg,
                                   !.peersConnected = ps + pg]) :
        a \in Activities, e \in Errors, f \in BOOLEAN, s \in BOOLEAN,
        ps \in 0..MaxPeers, ws \in 0..MaxPeers, pg \in 0..MaxPeers}

\* a snapshot of a torrent with peers in both directions, so that both
\* speeds are displayed
CellStat(a, e, sp) ==
    WithProgress([BaseStat EXCEPT !.activity = a, !.error = e,
                                  !.errorString = ErrorText(e),
                                  !.peersSendingToUs = 1,
                                  !.peersGettingFromUs = 1,
                                  !.peersConnected = 2,
                                  !.pieceUploadSpeed_KBps = sp,
                                  !.pieceDownloadSpeed_KBps = sp])

\* the snapshots a row is rendered with
CellStats ==
    {CellStat("TR_STATUS_DOWNLOAD", "TR_STAT_OK", 3),
     CellStat("TR_STATUS_DOWNLOAD", "TR_STAT_OK", 99),
     CellStat("TR_STATUS_SEED", "TR_STAT_LOCAL_ERROR", 99),
     CellStat("TR_STATUS_STOPPED", "TR_STAT_OK", 3)}

\* the torrents a row is rendered with
CellTorrents == {MkTorrent(TRUE, TRUE), MkTorrent(FALSE, FALSE)}

(***************************************************************************)
(* Toolkit: icons and size measurement of the sub-renderers                *)
(***************************************************************************)
Rect(x, y, w, h) == [x |-> x, y |-> y, width |-> w, height |-> h]

get_icon(tor) ==
    LET n_files == Len(tor.files)
        name == tor.files[1]
        mime_type ==
            IF n_files = 0 THEN <<"UnknownMimeType">>
            ELSE IF n_files > 1 THEN <<"DirectoryMimeType">>
            ELSE IF Len(name) > 1 THEN <<"DirectoryMimeType">>
            ELSE <<"mime-type-of", name[Len(name)]>>
    IN  <<"icon">> \o mime_type

\* natural size of a text cell: grows with the text, the scale and the weight
TextPreferredSize(tr) ==
    [width |-> Len(tr.text) * tr.scale
                   + (IF tr.weight = "BOLD" THEN Len(tr.text) ELSE 0)
                   + 2 * tr.xpad,
     height |-> 2 * tr.scale + 2 * tr.ypad]

\* natural size of an icon cell: the pixel size of its stock size
IconPreferredSize(ir) ==
    LET side == IF ir.stock_size = "ICON_SIZE_MENU" THEN 16 ELSE 32
    IN  [width |-> side, height |-> side]

set_icon(renderer, icon, icon_size) ==
    [renderer EXCEPT !.gicon = icon, !.stock_size = icon_size]

(***************************************************************************)
(* Size requests                                                           *)
(***************************************************************************)
get_size_compact ==
    LET tor == torrent
        st == stat
        icon == get_icon(tor)
        name == tor.name
        gstr_stat == getShortStatusString(tor, st, upload_speed_KBps, download_speed_KBps)
        xpad == padding.xpad
        ypad == padding.ypad
        ir == set_icon(icon_renderer_, icon, CompactIconSize)
        icon_size == IconPreferredSize(ir)
        tr1 == [text_renderer_ EXCEPT !.text = name, !.ellipsize = "NONE",
                                      !.scale = NormalScale]
        name_size == TextPreferredSize(tr1)
        tr2 == [tr1 EXCEPT !.text = gstr_stat, !.scale = SmallScale]
        stat_size == TextPreferredSize(tr2)
    IN  [ran |-> <<"get_size_compact">>,
         text_renderer_ |-> tr2,
         icon_renderer_ |-> ir,
         strings |-> [gstr_stat |-> gstr_stat],
         width |-> xpad * 2 + icon_size.width + GUI_PAD + CompactBarWidth + GUI_PAD
                       + stat_size.width,
         height |-> ypad * 2 + Max(name_size.height, bar_height)]

get_size_full ==
    LET tor == torrent
        st == stat
        total_size == tor.totalSize
        icon == get_icon(tor)
        name == tor.name
        gstr_stat == getStatusString(tor, st, upload_speed_KBps, download_speed_KBps, TRUE)
        gstr_prog == getProgressString(tor, total_size, st)
        xpad == padding.xpad
        ypad == padding.ypad
        ir == set_icon(icon_renderer_, icon, FullIconSize)
        icon_size == IconPreferredSize(ir)
        tr1 == [text_renderer_ EXCEPT !.text = name, !.weight = "BOLD",
                                      !.scale = NormalScale, !.ellipsize = "NONE"]
        name_size == TextPreferredSize(tr1)
        tr2 == [tr1 EXCEPT !.text = gstr_prog, !.weight = "NORMAL", !.scale = SmallScale]
        prog_size == TextPreferredSize(tr2)
        tr3 == [tr2 EXCEPT !.text = gstr_stat]
        stat_size == TextPreferredSize(tr3)
    IN  [ran |-> <<"get_size_full">>,
         text_renderer_ |-> tr3,
         icon_renderer_ |-> ir,
         strings |-> [gstr_stat |-> gstr_stat, gstr_prog |-> gstr_prog],
         measured |-> [icon_size |-> icon_size, name_height |-> name_size.height,
                       prog_height |-> prog_size.height,
                       stat_height |-> stat_size.height],
         width |-> xpad * 2 + icon_size.width + GUI_PAD
                       + Max(prog_size.width, stat_size.width),
         height |-> ypad * 2 + name_size.height + prog_size.height + GUI_PAD_SMALL
                        + bar_height + GUI_PAD_SMALL + stat_size.height]

(***************************************************************************)
(* Rendering                                                               *)
(***************************************************************************)
get_percent_done(tor, st) ==
    IF st.activity = "TR_STATUS_SEED" /\ tor.hasSeedRatio
    THEN [seed |-> TRUE, d |-> Max(0, st.seedRatioPercentDone)]
    ELSE [seed |-> FALSE, d |-> Max(0, st.percentDone)]

get_progress_bar_color(st) ==
    IF st.activity = "TR_STATUS_DOWNLOAD" THEN "steelblue"
    ELSE IF st.activity = "TR_STATUS_SEED" THEN "forestgreen"
    ELSE "silver"

\* background_area shrunk by the padding on every side
FillArea(background_area, xpad, ypad) ==
    Rect(background_area.x + xpad, background_area.y + ypad,
         background_area.width - xpad * 2, background_area.height - ypad * 2)

\* variant: in right-to-left direction the name is packed against the status
CompactLayout_RtlNameNoPad(fill_area, icon_width, stat_width, rtl) ==
    LET prog_width == CompactBarWidth
        name_width == fill_area.width - icon_width - stat_width - prog_width
                          - GUI_PAD * 3
        icon_x == IF ~rtl THEN fill_area.x
                  ELSE fill_area.x + fill_area.width - icon_width
        prog_x == IF ~rtl THEN fill_area.x + fill_area.width - prog_width
                  ELSE fill_area.x
        stat_x == IF ~rtl THEN prog_x - stat_width - GUI_PAD
                  ELSE prog_x + prog_width + GUI_PAD
        name_x == IF ~rtl THEN icon_x + icon_width + GUI_PAD
                  ELSE stat_x + stat_width
    IN  [icon_area |-> [fill_area EXCEPT !.x = icon_x, !.width = icon_width],
         prog_area |-> [fill_area EXCEPT !.x = prog_x, !.width = prog_width],
         stat_area |-> [fill_area EXCEPT !.x = stat_x, !.width = stat_width],
         name_area |-> [fill_area EXCEPT !.x = name_x, !.width = name_width]]

\* the four regions of render_compact
CompactLayout(fill_area, icon_width, stat_width, rtl) ==
    LET prog_width == CompactBarWidth
        name_width == fill_area.width - icon_width - stat_width - prog_width
                          - GUI_PAD * 3
        icon_x == IF ~rtl THEN fill_area.x
                  ELSE fill_area.x + fill_area.width - icon_width
        prog_x == IF ~rtl THEN fill_area.x + fill_area.width - prog_width
                  ELSE fill_area.x
        stat_x == IF ~rtl THEN prog_x - stat_width - GUI_PAD
                  ELSE prog_x + prog_width + GUI_PAD
        name_x == IF ~rtl THEN icon_x + icon_width + GUI_PAD
                  ELSE stat_x + stat_width + GUI_PAD
    IN  [icon_area |-> [fill_area EXCEPT !.x = icon_x, !.width = icon_width],
         prog_area |-> [fill_area EXCEPT !.x = prog_x, !.width = prog_width],
         stat_area |-> [fill_area EXCEPT !.x = stat_x, !.width = stat_width],
         name_area |-> [fill_area EXCEPT !.x = name_x, !.width = name_width]]

\* a / b of C++ truncates toward zero
TruncDiv(a, b) == IF a >= 0 THEN a \div b ELSE -((-a) \div b)

\* variant: the text column takes all the width the icon leaves
FullLayout_NoIconGap(fill_area, icon_size, name_height, prog_height, stat_height, bar, rtl) ==
    LET icon_y == fill_area.y + TruncDiv(fill_area.height - icon_size.height, 2)
        name_y == fill_area.y
        name_width == fill_area.width - icon_size.width
        icon_x == IF ~rtl THEN fill_area.x
                  ELSE fill_area.x + fill_area.width - icon_size.width
        name_x == IF ~rtl THEN fill_area.x + fill_area.width - name_width
                  ELSE fill_area.x
        prog_y == name_y + name_height
        prct_y == prog_y + prog_height + GUI_PAD_SMALL
        stat_y == prct_y + bar + GUI_PAD_SMALL
    IN  [icon_area |-> Rect(icon_x, icon_y, icon_size.width, icon_size.height),
         name_area |-> Rect(name_x, name_y, name_width, name_height),
         prog_area |-> Rect(name_x, prog_y, name_width, prog_height),
         prct_area |-> Rect(name_x, prct_y, name_width, bar),
         stat_area |-> Rect(name_x, stat_y, name_width, stat_height)]

\* variant: the status follows the bar without the small gap
FullLayout_StatNoGap(fill_area, icon_size, name_height, prog_height, stat_height, bar, rtl) ==
    LET icon_y == fill_area.y + TruncDiv(fill_area.height - icon_size.height, 2)
        name_y == fill_area.y
        name_width == fill_area.width - GUI_PAD - icon_size.width
        icon_x == IF ~rtl THEN fill_area.x
                  ELSE fill_area.x + fill_area.width - icon_size.width
        name_x == IF ~rtl THEN fill_area.x + fill_area.width - name_width
                  ELSE fill_area.x
        prog_y == name_y + name_height
        prct_y == prog_y + prog_height + GUI_PAD_SMALL
        stat_y == prct_y + bar
    IN  [icon_area |-> Rect(icon_x, icon_y, icon_size.width, icon_size.height),
         name_area |-> Rect(name_x, name_y, name_width, name_height),
         prog_area |-> Rect(name_x, prog_y, name_width, prog_height),
         prct_area |-> Rect(name_x, prct_y, name_width, bar),
         stat_area |-> Rect(name_x, stat_y, name_width, stat_height)]

\* the five regions of render_full
FullLayout(fill_area, icon_size, name_height, prog_height, stat_height, bar, rtl) ==
    LET icon_y == fill_area.y + TruncDiv(fill_area.height - icon_size.height, 2)
        name_y == fill_area.y
        name_width == fill_area.width - GUI_PAD - icon_size.width
        icon_x == IF ~rtl THEN fill_area.x
                  ELSE fill_area.x + fill_area.width - icon_size.width
        name_x == IF ~rtl THEN fill_area.x + fill_area.width - name_width
                  ELSE fill_area.x
        prog_y == name_y + name_height
        prct_y == prog_y + prog_height + GUI_PAD_SMALL
        stat_y == prct_y + bar + GUI_PAD_SMALL
    IN  [icon_area |-> Rect(icon_x, icon_y, icon_size.width, icon_size.height),
         name_area |-> Rect(name_x, name_y, name_width, name_height),
         prog_area |-> Rect(name_x, prog_y, name_width, prog_height),
         prct_area |-> Rect(name_x, prct_y, name_width, bar),
         stat_area |-> Rect(name_x, stat_y, name_width, stat_height)]

\* one render_impl / render_progress_bar call: what is drawn, where and how
Draw(what, renderer, area, flags) ==
    [what |-> what, props |-> renderer, area |-> area, flags |-> flags]

render_compact(background_area, flags0, rtl) ==
    LET tor == torrent
        st == stat
        active == st.activity \notin {"TR_STATUS_STOPPED", "TR_STATUS_DOWNLOAD_WAIT",
                                      "TR_STATUS_SEED_WAIT"}
        percentDone == get_percent_done(tor, st).d
        sensitive == active \/ st.error # "TR_STAT_OK"
        flags == IF st.activity = "TR_STATUS_STOPPED"
                 THEN flags0 \cup {"INSENSITIVE"} ELSE flags0
        tr0 == IF st.error # "TR_STAT_OK" /\ "SELECTED" \notin flags
               THEN [text_renderer_ EXCEPT !.foreground = "red", !.foreground_set = TRUE]
               ELSE [text_renderer_ EXCEPT !.foreground_set = FALSE]
        icon == get_icon(tor)
        name == tor.name
        progress_color == get_progress_bar_color(st)
        gstr_stat == getShortStatusString(tor, st, upload_speed_KBps, download_speed_KBps)
        fill_area == FillArea(background_area, padding.xpad, padding.ypad)
        ir == [set_icon(icon_renderer_, icon, CompactIconSize) EXCEPT
                   !.sensitive = sensitive]
        icon_width == IconPreferredSize(ir).width
        tr1 == [tr0 EXCEPT !.text = gstr_stat, !.ellipsize = "NONE", !.scale = SmallScale]
        stat_width == TextPreferredSize(tr1).width
        areas == CompactLayout(fill_area, icon_width, stat_width, rtl)
        percent_done == (percentDone * 100) \div 1000
        pr == [progress_renderer_ EXCEPT !.value = percent_done,
                                         !.text = <<ToString(percent_done), "%">>,
                                         !.sensitive = sensitive]
        tr2 == [tr1 EXCEPT !.ellipsize = "END"]
        tr3 == [tr2 EXCEPT !.text = name, !.scale = NormalScale]
    IN  [ran |-> <<"render_compact">>,
         text_renderer_ |-> tr3,
         progress_renderer_ |-> pr,
         icon_renderer_ |-> ir,
         strings |-> [gstr_stat |-> gstr_stat],
         fill_area |-> fill_area,
         areas |-> areas,
         measured |-> [icon_width |-> icon_width, stat_width |-> stat_width],
         draws |-> <<Draw("icon", ir, areas.icon_area, flags),
                     Draw("progress", pr @@ [color |-> progress_color],
                          areas.prog_area, flags),
                     Draw("text", tr2, areas.stat_area, flags),
                     Draw("text", tr3, areas.name_area, flags)>>]

render_full(background_area, flags0, rtl) ==
    LET tor == torrent
        st == stat
        total_size == tor.totalSize
        active == st.activity \notin {"TR_STATUS_STOPPED", "TR_STATUS_DOWNLOAD_WAIT",
                                      "TR_STATUS_SEED_WAIT"}
        percentDone == get_percent_done(tor, st).d
        sensitive == active \/ st.error # "TR_STAT_OK"
        flags == IF st.activity = "TR_STATUS_STOPPED"
                 THEN flags0 \cup {"INSENSITIVE"} ELSE flags0
        tr0 == IF st.error # "TR_STAT_OK" /\ "SELECTED" \notin flags
               THEN [text_renderer_ EXCEPT !.foreground = "red", !.foreground_set = TRUE]
               ELSE [text_renderer_ EXCEPT !.foreground_set = FALSE]
        icon == get_icon(tor)
        name == tor.name
        progress_color == get_progress_bar_color(st)
        gstr_prog == getProgressString(tor, total_size, st)
        gstr_stat == getStatusString(tor, st, upload_speed_KBps, download_speed_KBps, FALSE)
        ir == [set_icon(icon_renderer_, icon, FullIconSize) EXCEPT
                   !.sensitive = sensitive]
        icon_size == IconPreferredSize(ir)
        tr1 == [tr0 EXCEPT !.text = name, !.weight = "BOLD", !.ellipsize = "NONE",
                           !.scale = NormalScale]
        name_height == TextPreferredSize(tr1).height
        tr2 == [tr1 EXCEPT !.text = gstr_prog, !.weight = "NORMAL", !.scale = SmallScale]
        prog_height == TextPreferredSize(tr2).height
        tr3 == [tr2 EXCEPT !.text = gstr_stat]
        stat_height == TextPreferredSize(tr3).height
        fill_area == FillArea(background_area, padding.xpad, padding.ypad)
        areas == FullLayout(fill_area, icon_size, name_height, prog_height, stat_height,
                            bar_height, rtl)
        tr4 == [tr3 EXCEPT !.text = name, !.scale = NormalScale, !.ellipsize = "END",
                           !.weight = "BOLD"]
        tr5 == [tr4 EXCEPT !.text = gstr_prog, !.scale = SmallScale, !.weight = "NORMAL"]
        pr == [progress_renderer_ EXCEPT !.value = (percentDone * 100) \div 1000,
                                         !.text = <<>>,
                                         !.sensitive = sensitive]
        tr6 == [tr5 EXCEPT !.text = gstr_stat]
    IN  [ran |-> <<"render_full">>,
         text_renderer_ |-> tr6,
         progress_renderer_ |-> pr,
         icon_renderer_ |-> ir,
         strings |-> [gstr_stat |-> gstr_stat, gstr_prog |-> gstr_prog],
         fill_area |-> fill_area,
         areas |-> areas,
         measured |-> [icon_size |-> icon_size, name_height |-> name_height,
                       prog_height |-> prog_height, stat_height |-> stat_height],
         draws |-> <<Draw("icon", ir, areas.icon_area, flags),
                     Draw("text", tr4, areas.name_area, flags),
                     Draw("text", tr5, areas.prog_area, flags),
                     Draw("progress", pr @@ [color |-> progress_color],
                          areas.prct_area, flags),
                     Draw("text", tr6, areas.stat_area, flags)>>]

(***************************************************************************)
(* State after construction, and the properties the host sets through the *)
(* property proxies before it asks for a row                               *)
(***************************************************************************)
NoCall == [op |-> "none", ran |-> <<>>]

NoOut == [minimum |-> 0, natural |-> 0]

NoResult == [fn |-> "none", value |-> <<>>]

Constructed ==
    /\ text_renderer_ = [text |-> <<>>, ellipsize |-> "NONE", scale |-> NormalScale,
                         weight |-> "NORMAL", foreground |-> "",
                         foreground_set |-> FALSE, xpad |-> 0, ypad |-> 0]
    /\ progress_renderer_ = [value |-> 0, text |-> <<>>, sensitive |-> TRUE]
    /\ icon_renderer_ = [gicon |-> <<>>, stock_size |-> "ICON_SIZE_MENU",
                         sensitive |-> TRUE]

BarHeights == {DefaultBarHeight, 30}

\* the piece-upload-speed and piece-download-speed the model hands over
PropertySpeeds == {[up |-> 0, down |-> 0], [up |-> 25, down |-> 7]}

\* a renderer as constructed, with the properties the host has set for a row
Init ==
    /\ Constructed
    /\ torrent \in CellTorrents \cup {NULL}
    /\ stat \in (IF torrent = NULL THEN {NULL} ELSE CellStats)
    /\ bar_height \in BarHeights
    /\ \E sp \in PropertySpeeds :
          upload_speed_KBps = sp.up /\ download_speed_KBps = sp.down
    /\ compact = FALSE
    /\ padding \in [xpad : 0..MaxPad, ypad : 0..MaxPad]
    /\ out = NoOut
    /\ call = NoCall
    /\ ignore_errors = FALSE
    /\ result = NoResult

(***************************************************************************)
(* The host switches between the full and the compact view                 *)
(***************************************************************************)
SetCompact ==
    /\ compact' \in BOOLEAN \ {compact}
    /\ call' = NoCall
    /\ out' = NoOut
    /\ UNCHANGED <<torrent, stat, bar_height, upload_speed_KBps, download_speed_KBps,
                   padding, subrenderers, ignore_errors, result>>

(***************************************************************************)
(* Requests of the tree view                                               *)
(***************************************************************************)
\* values the caller's output arguments hold on entry
EntryValues == {[minimum |-> 0, natural |-> 0], [minimum |-> -1, natural |-> 7]}

\* variant: the width request reports 0 when there is no torrent
get_preferred_width_vfunc_ZeroOnNull(entry) ==
    IF torrent # NULL
    THEN \E r \in {IF compact THEN get_size_compact ELSE get_size_full} :
             /\ out' = [minimum |-> r.width, natural |-> r.width]
             /\ text_renderer_' = r.text_renderer_
             /\ icon_renderer_' = r.icon_renderer_
             /\ call' = [op |-> "get_preferred_width", ran |-> r.ran, entry |-> entry,
                         strings |-> r.strings]
    ELSE /\ out' = [minimum |-> 0, natural |-> 0]
         /\ call' = [op |-> "get_preferred_width", ran |-> <<>>, entry |-> entry]
         /\ UNCHANGED <<text_renderer_, icon_renderer_>>

get_preferred_width_vfunc(entry) ==
    IF torrent # NULL
    THEN \E r \in {IF compact THEN get_size_compact ELSE get_size_full} :
             /\ out' = [minimum |-> r.width, natural |-> r.width]
             /\ text_renderer_' = r.text_renderer_
             /\ icon_renderer_' = r.icon_renderer_
             /\ call' = [op |-> "get_preferred_width", ran |-> r.ran, entry |-> entry,
                         strings |-> r.strings]
    ELSE /\ out' = entry
         /\ call' = [op |-> "get_preferred_width", ran |-> <<>>, entry |-> entry]
         /\ UNCHANGED <<text_renderer_, icon_renderer_>>

\* variant: the height request ignores the compact property
get_preferred_height_vfunc_AlwaysFull(entry) ==
    IF torrent # NULL
    THEN \E r \in {get_size_full} :
             /\ out' = [minimum |-> r.height, natural |-> r.height]
             /\ text_renderer_' = r.text_renderer_
             /\ icon_renderer_' = r.icon_renderer_
             /\ call' = [op |-> "get_preferred_height", ran |-> r.ran, entry |-> entry,
                         strings |-> r.strings]
    ELSE /\ out' = entry
         /\ call' = [op |-> "get_preferred_height", ran |-> <<>>, entry |-> entry]
         /\ UNCHANGED <<text_renderer_, icon_renderer_>>

get_preferred_height_vfunc(entry) ==
    IF torrent # NULL
    THEN \E r \in {IF compact THEN get_size_compact ELSE get_size_full} :
             /\ out' = [minimum |-> r.height, natural |-> r.height]
             /\ text_renderer_' = r.text_renderer_
             /\ icon_renderer_' = r.icon_renderer_
             /\ call' = [op |-> "get_preferred_height", ran |-> r.ran, entry |-> entry,
                         strings |-> r.strings]
    ELSE /\ out' = entry
         /\ call' = [op |-> "get_preferred_height", ran |-> <<>>, entry |-> entry]
         /\ UNCHANGED <<text_renderer_, icon_renderer_>>

render_vfunc(background_area, flags, rtl) ==
    IF torrent # NULL
    THEN \E r \in {IF compact THEN render_compact(background_area, flags, rtl)
                     ELSE render_full(background_area, flags, rtl)} :
             /\ text_renderer_' = r.text_renderer_
             /\ progress_renderer_' = r.progress_renderer_
             /\ icon_renderer_' = r.icon_renderer_
             /\ call' = [op |-> "render", ran |-> r.ran,
                         background_area |-> background_area, rtl |-> rtl,
                         strings |-> r.strings, fill_area |-> r.fill_area,
                         areas |-> r.areas, measured |-> r.measured, draws |-> r.draws]
    ELSE /\ call' = [op |-> "render", ran |-> <<>>,
                     background_area |-> background_area, rtl |-> rtl, draws |-> <<>>]
         /\ UNCHANGED subrenderers

\* the size the tree view was told, which it allocates with some slack or,
\* when the window is too small, with less
Requested ==
    IF torrent = NULL THEN [width |-> 100, height |-> 20]
    ELSE IF compact THEN [width |-> get_size_compact.width,
                          height |-> get_size_compact.height]
    ELSE [width |-> get_size_full.width, height |-> get_size_full.height]

ExtraWidths == {-8, 0, 100}
Placements == {[x |-> 0, y |-> 0, extra_height |-> 0],
               [x |-> 10, y |-> 40, extra_height |-> 5]}

BackgroundAreas ==
    {Rect(p.x, p.y, Requested.width + dw, Requested.height + p.extra_height) :
        p \in Placements, dw \in ExtraWidths}

GetPreferredWidth ==
    /\ \E entry \in EntryValues : get_preferred_width_vfunc(entry)
    /\ UNCHANGED <<public, progress_renderer_, ignore_errors, result>>

GetPreferredHeight ==
    /\ \E entry \in EntryValues : get_preferred_height_vfunc(entry)
    /\ UNCHANGED <<public, progress_renderer_, ignore_errors, result>>

\* variant: rendering stores the snapshot's speeds in the speed properties
Render_StoresSnapshotSpeeds ==
    /\ \E background_area \in BackgroundAreas, flags \in SUBSET {"SELECTED"},
          rtl \in BOOLEAN :
          render_vfunc(background_area, flags, rtl)
    /\ out' = NoOut
    /\ IF torrent # NULL
       THEN /\ upload_speed_KBps' = stat.pieceUploadSpeed_KBps
            /\ download_speed_KBps' = stat.pieceDownloadSpeed_KBps
       ELSE UNCHANGED <<upload_speed_KBps, download_speed_KBps>>
    /\ UNCHANGED <<torrent, stat, bar_height, compact, padding, ignore_errors, result>>

Render ==
    /\ \E background_area \in BackgroundAreas, flags \in SUBSET {"SELECTED"},
          rtl \in BOOLEAN :
          render_vfunc(background_area, flags, rtl)
    /\ out' = NoOut
    /\ UNCHANGED <<public, ignore_errors, result>>

Next ==
    \/ SetCompact
    \/ GetPreferredWidth
    \/ GetPreferredHeight
    \/ Render

Spec == Init /\ [][Next]_vars

(***************************************************************************)
(* Direct calls of the string functions, on every kind of snapshot         *)
(***************************************************************************)
StatusTorrents == {MkTorrent(m, r) : m \in BOOLEAN, r \in BOOLEAN}

InitStrings ==
    /\ Constructed
    /\ torrent \in StatusTorrents
    /\ stat \in StatusStats
    /\ bar_height = DefaultBarHeight
    /\ \E sp \in PropertySpeeds :
          upload_speed_KBps = sp.up /\ download_speed_KBps = sp.down
    /\ compact = FALSE
    /\ padding = [xpad |-> 0, ypad |-> 0]
    /\ out = NoOut
    /\ call = NoCall
    /\ ignore_errors \in BOOLEAN
    /\ result = NoResult

CallGetStatusString ==
    /\ result' = [fn |-> "getStatusString",
                  value |-> getStatusString(torrent, stat, upload_speed_KBps,
                                            download_speed_KBps, ignore_errors)]
    /\ UNCHANGED <<public, subrenderers, out, call, ignore_errors>>

CallGetShortStatusString ==
    /\ result' = [fn |-> "getShortStatusString",
                  value |-> getShortStatusString(torrent, stat, upload_speed_KBps,
                                                 download_speed_KBps)]
    /\ UNCHANGED <<public, subrenderers, out, call, ignore_errors>>

NextStrings ==
    \/ CallGetStatusString
    \/ CallGetShortStatusString

SpecStrings == InitStrings /\ [][NextStrings]_vars

(***************************************************************************)
(* Properties                                                              *)
(***************************************************************************)
SizeOps == {"get_preferred_width", "get_preferred_height"}

Served == call.op # "none" /\ torrent # NULL

Right(r) == r.x + r.width

Bottom(r) == r.y + r.height

Inside(r, outer) ==
    /\ outer.x <= r.x /\ Right(r) <= Right(outer)
    /\ outer.y <= r.y /\ Bottom(r) <= Bottom(outer)

\* the fill area as the padding defines it: the background area shrunk by
\* xpad on the left and right and by ypad above and below
PaddedArea ==
    Rect(call.background_area.x + padding.xpad, call.background_area.y + padding.ypad,
         call.background_area.width - 2 * padding.xpad,
         call.background_area.height - 2 * padding.ypad)

\* C1: a size or render request on a non-null torrent runs exactly one
\* routine: the compact one if and only if the compact property is true,
\* the full one otherwise, whatever the kind of request.
C1_ModeFollowsCompactProperty ==
    Served =>
        call.ran = << IF call.op = "render"
                      THEN (IF compact THEN "render_compact" ELSE "render_full")
                      ELSE (IF compact THEN "get_size_compact" ELSE "get_size_full") >>

C1_Witness ==
    /\ Served
    /\ call.op = "get_preferred_height"
    /\ compact
    /\ call.ran = <<"get_size_compact">>

\* C2: a size or render request leaves the torrent, its statistics snapshot
\* and the public properties (and the padding) as they were; what it
\* changes is confined to the three sub-renderers.
C2_RequestsKeepPublicState ==
    [][call'.op # "none" => UNCHANGED public]_vars

C2_Witness ==
    /\ Served
    /\ call.op = "render"
    /\ text_renderer_.text = torrent.name
    /\ progress_renderer_.text # <<>>
    /\ upload_speed_KBps # stat.pieceUploadSpeed_KBps

\* the speed figures of a text, in order: the pieces followed by the unit
RECURSIVE SpeedFigures(_)
SpeedFigures(text) ==
    IF Len(text) < 2 THEN <<>>
    ELSE IF text[2] = " kB/s" THEN <<text[1]>> \o SpeedFigures(Tail(Tail(text)))
    ELSE SpeedFigures(Tail(text))

SnapshotSpeeds == {0, 3, 25, 99}

SpeedVariants(st) ==
    {[st EXCEPT !.pieceUploadSpeed_KBps = u, !.pieceDownloadSpeed_KBps = d] :
        u \in SnapshotSpeeds, d \in SnapshotSpeeds}

\* the texts a request measured or drew
TextsShown ==
    {call.strings.gstr_stat}
        \cup (IF call.op = "render"
              THEN {call.draws[i].props.text :
                        i \in {j \in 1..Len(call.draws) : call.draws[j].what = "text"}}
              ELSE {})

\* C3: every speed figure in a text that a request measures or draws is the
\* piece-download-speed or piece-upload-speed property (download first), and
\* the status text is the one any snapshot differing only in its own speed
\* fields would give.
C3_SpeedsComeFromProperties ==
    Served =>
        /\ \A text \in TextsShown :
              SpeedFigures(text) \in
                  {<<>>, <<ToString(upload_speed_KBps)>>,
                   <<ToString(download_speed_KBps), ToString(upload_speed_KBps)>>}
        /\ \A st2 \in SpeedVariants(stat) :
              call.strings.gstr_stat =
                  IF compact
                  THEN getShortStatusString(torrent, st2, upload_speed_KBps,
                                            download_speed_KBps)
                  ELSE getStatusString(torrent, st2, upload_speed_KBps,
                                       download_speed_KBps, call.op # "render")

C3_Witness ==
    /\ Served
    /\ call.op = "render"
    /\ compact
    /\ stat.pieceUploadSpeed_KBps = 99
    /\ upload_speed_KBps = 25
    /\ SpeedFigures(call.strings.gstr_stat) = <<"7", "25">>

\* C4: render_compact packs icon, name, status and bar from left to right
\* with GUI_PAD between neighbours, the icon on the left edge and the bar on
\* the right edge of the fill area; right-to-left is the mirror image; all
\* four regions have the y and the height of the fill area.
C4_CompactRegionsPacked ==
    (Served /\ call.ran = <<"render_compact">>) =>
        LET f == PaddedArea
            a == call.areas
            \* left edges in left-to-right direction, packed from the left
            icon_x == f.x
            name_x == icon_x + a.icon_area.width + GUI_PAD
            stat_x == name_x + a.name_area.width + GUI_PAD
            prog_x == stat_x + a.stat_area.width + GUI_PAD
            Mirror(x, w) == 2 * f.x + f.width - x - w
        IN  /\ call.fill_area = f
            /\ prog_x + a.prog_area.width = Right(f)
            /\ a.prog_area.width = CompactBarWidth
            /\ a.icon_area.width = call.measured.icon_width
            /\ a.stat_area.width = call.measured.stat_width
            /\ \A r \in {a.icon_area, a.name_area, a.stat_area, a.prog_area} :
                  r.y = f.y /\ r.height = f.height
            /\ ~call.rtl =>
                  /\ a.icon_area.x = icon_x
                  /\ a.name_area.x = name_x
                  /\ a.stat_area.x = stat_x
                  /\ a.prog_area.x = prog_x
            /\ call.rtl =>
                  /\ a.icon_area.x = Mirror(icon_x, a.icon_area.width)
                  /\ a.name_area.x = Mirror(name_x, a.name_area.width)
                  /\ a.stat_area.x = Mirror(stat_x, a.stat_area.width)
                  /\ a.prog_area.x = Mirror(prog_x, a.prog_area.width)
                  /\ a.prog_area.x = f.x
                  /\ a.stat_area.x = Right(a.prog_area) + GUI_PAD
                  /\ a.name_area.x = Right(a.stat_area) + GUI_PAD
                  /\ a.icon_area.x = Right(a.name_area) + GUI_PAD
                  /\ Right(a.icon_area) = Right(f)

C4_Witness ==
    /\ Served
    /\ call.ran = <<"render_compact">>
    /\ call.rtl
    /\ padding.xpad > 0
    /\ call.background_area.x > 0
    /\ call.areas.name_area.width > 0

\* C5: render_full puts the icon and the text column side by side, GUI_PAD
\* apart, the icon on the leading edge of the fill area and the text column
\* on the trailing edge; name, progress text, bar and status all have the x
\* and the width of the text column.
C5_FullIconAndTextColumn ==
    (Served /\ call.ran = <<"render_full">>) =>
        LET f == PaddedArea
            a == call.areas
            icon == a.icon_area
            col == a.name_area
        IN  /\ call.fill_area = f
            /\ icon.width = call.measured.icon_size.width
            /\ ~call.rtl =>
                  /\ icon.x = f.x
                  /\ col.x = Right(icon) + GUI_PAD
                  /\ Right(col) = Right(f)
            /\ call.rtl =>
                  /\ Right(icon) = Right(f)
                  /\ icon.x = Right(col) + GUI_PAD
                  /\ col.x = f.x
            /\ col.width >= 0 => (Right(icon) <= col.x \/ Right(col) <= icon.x)
            /\ \A r \in {a.prog_area, a.prct_area, a.stat_area} :
                  r.x = col.x /\ r.width = col.width

C5_Witness ==
    /\ Served
    /\ call.ran = <<"render_full">>
    /\ call.rtl
    /\ padding.xpad > 0
    /\ call.areas.name_area.width > 0
    /\ call.areas.icon_area.x > call.areas.name_area.x

\* C6 (as claimed): a background area at least as wide as the width
\* get_size_compact reports gives each of the four regions of render_compact
\* a non-negative width, inside the fill area.
C6_CompactWidthSufficient ==
    (Served /\ call.ran = <<"render_compact">>
        /\ call.background_area.width >= get_size_compact.width) =>
        \A r \in {call.areas.icon_area, call.areas.name_area, call.areas.stat_area,
                  call.areas.prog_area} :
            r.width >= 0 /\ Inside(r, call.fill_area)

\* C7: render_full stacks name, progress text, bar and status downward from
\* the top of the fill area: the progress text starts where the name ends,
\* the bar (bar-height high) GUI_PAD_SMALL below the progress text, the
\* status GUI_PAD_SMALL below the bar; with the text heights of
\* get_size_full and a background as high as it reports, the status ends on
\* the bottom edge of the fill area.
C7_FullRowsStacked ==
    (Served /\ call.ran = <<"render_full">>) =>
        LET f == PaddedArea
            a == call.areas
            m == get_size_full.measured
        IN  /\ a.name_area.y = f.y
            /\ a.prog_area.y = Bottom(a.name_area)
            /\ a.prct_area.y = Bottom(a.prog_area) + GUI_PAD_SMALL
            /\ a.prct_area.height = bar_height
            /\ a.stat_area.y = Bottom(a.prct_area) + GUI_PAD_SMALL
            /\ Bottom(a.name_area) <= a.prog_area.y
            /\ Bottom(a.prog_area) <= a.prct_area.y
            /\ Bottom(a.prct_area) <= a.stat_area.y
            /\ (/\ a.name_area.height = m.name_height
                /\ a.prog_area.height = m.prog_height
                /\ a.stat_area.height = m.stat_height
                /\ call.background_area.height = get_size_full.height)
               => Bottom(a.stat_area) = Bottom(f)

C7_Witness ==
    /\ Served
    /\ call.ran = <<"render_full">>
    /\ call.background_area.height = get_size_full.height
    /\ padding.ypad > 0
    /\ bar_height # DefaultBarHeight
    /\ Bottom(call.areas.stat_area) = Bottom(call.fill_area)

\* C8: with a null torrent a render request draws nothing and a request
\* changes no sub-renderer property, and a width or height request leaves
\* the minimum and natural output arguments as they were on entry.
C8_NullTorrentDoesNothing ==
    [][(torrent = NULL /\ call'.op # "none") =>
           /\ UNCHANGED subrenderers
           /\ call'.ran = <<>>
           /\ call'.op = "render" => call'.draws = <<>>
           /\ call'.op \in SizeOps => out' = call'.entry]_vars

C8_Witness ==
    /\ torrent = NULL
    /\ call.op = "get_preferred_width"
    /\ out = [minimum |-> -1, natural |-> 7]

IsDirectStatusCall == result.fn = "getStatusString"

ErrorShown ==
    /\ ~ignore_errors
    /\ stat.error \in {"TR_STAT_TRACKER_WARNING", "TR_STAT_TRACKER_ERROR",
                       "TR_STAT_LOCAL_ERROR"}

ErrorMessageStart ==
    CASE stat.error = "TR_STAT_TRACKER_WARNING" -> <<"Tracker warning: '", stat.errorString>>
      [] stat.error = "TR_STAT_TRACKER_ERROR" -> <<"Tracker Error: '", stat.errorString>>
      [] stat.error = "TR_STAT_LOCAL_ERROR" -> <<"Local error: '", stat.errorString>>

ActivityOfCall ==
    getActivityString(torrent, stat, upload_speed_KBps, download_speed_KBps)

ShortTransferOfCall ==
    getShortTransferString(torrent, stat, upload_speed_KBps, download_speed_KBps)

\* C9: getStatusString starts with the error message, and does not contain
\* the activity string, when errors are not ignored and the error is a
\* tracker warning, tracker error or local error; otherwise it starts with
\* the activity string. " - " and the short transfer string are appended if
\* and only if the activity is DOWNLOAD or SEED and that string is not empty.
C9_ErrorBeforeActivity ==
    IsDirectStatusCall =>
        LET suffix == <<" - ">> \o ShortTransferOfCall
            appended == ShortTransferOfCall # <<>> /\ EndsWith(result.value, suffix)
        IN  /\ ErrorShown =>
                  /\ StartsWith(result.value, ErrorMessageStart)
                  /\ ~Contains(result.value, ActivityOfCall)
            /\ ~ErrorShown => StartsWith(result.value, ActivityOfCall)
            /\ appended <=>
                  (/\ stat.activity \in {"TR_STATUS_DOWNLOAD", "TR_STATUS_SEED"}
                   /\ ShortTransferOfCall # <<>>)
            /\ Len(result.value) =
                  (IF ErrorShown THEN Len(ErrorMessageStart) + 1 ELSE Len(ActivityOfCall))
                      + (IF appended THEN Len(suffix) ELSE 0)

C9_Witness ==
    /\ IsDirectStatusCall
    /\ ErrorShown
    /\ stat.activity = "TR_STATUS_SEED"
    /\ StartsWith(result.value, <<"Local error: '">>)
    /\ EndsWith(result.value, <<" - ", "25", " kB/s", " ^">>)

\* C10: for each of the seven activities, every error value and both values
\* of ignore_errors, getStatusString returns a string and never reaches the
\* g_assert_not_reached of getActivityString, which it evaluates even when
\* the error message replaces the activity string.
C10_AssertNeverReached ==
    IsDirectStatusCall =>
        /\ ActivityOfCall # AssertNotReached
        /\ result.value # AssertNotReached
        /\ result.value # <<>>

C10_Witness ==
    /\ IsDirectStatusCall
    /\ ErrorShown
    /\ stat.activity = "TR_STATUS_SEED_WAIT"
    /\ ~Contains(result.value, ActivityOfCall)

(***************************************************************************)
(* Direct calls of getProgressString, on every kind of progress            *)
(***************************************************************************)
\* snapshots in which done, seed, activity and eta vary independently
ProgressStats ==
    {[BaseStat EXCEPT !.activity = a, !.leftUntilDone = left, !.haveValid = valid,
                      !.haveUnchecked = unchecked, !.eta = eta] :
        a \in Activities, left \in {0, 40}, valid \in {50, 100},
        unchecked \in {0, 10}, eta \in {-1, 60}}

InitProgress ==
    /\ Constructed
    /\ torrent \in StatusTorrents
    /\ stat \in ProgressStats
    /\ bar_height = DefaultBarHeight
    /\ upload_speed_KBps = 0
    /\ download_speed_KBps = 0
    /\ compact = FALSE
    /\ padding = [xpad |-> 0, ypad |-> 0]
    /\ out = NoOut
    /\ call = NoCall
    /\ ignore_errors = FALSE
    /\ result = NoResult

\* called with tr_torrentTotalSize(tor), as both callers do
CallGetProgressString ==
    /\ result' = [fn |-> "getProgressString",
                  value |-> getProgressString(torrent, torrent.totalSize, stat)]
    /\ UNCHANGED <<public, subrenderers, out, call, ignore_errors>>

NextProgress == CallGetProgressString

SpecProgress == InitProgress /\ [][NextProgress]_vars

IsDirectProgressCall == result.fn = "getProgressString"

ProgressIsDone == stat.leftUntilDone = 0

ProgressIsSeed == stat.haveValid >= torrent.totalSize

\* the message forms, told apart by the fixed text of their format strings
IsDownloadingForm(text) ==
    /\ Contains(text, <<"%)">>)
    /\ ~Contains(text, <<"%), uploaded ">>)
    /\ ~Contains(text, <<", uploaded ">>)

IsPartialSeedForm(text) ==
    /\ Contains(text, <<"%), uploaded ">>)
    /\ ~Contains(text, <<"%)">>)
    /\ ~Contains(text, <<", uploaded ">>)

IsSeedForm(text) ==
    /\ Contains(text, <<", uploaded ">>)
    /\ ~Contains(text, <<"%)">>)
    /\ ~Contains(text, <<"%), uploaded ">>)

HasGoal(text) == Contains(text, <<", Goal: ">> \o tr_strlratio(torrent.seedRatio))

MentionsGoal(text) == Contains(text, <<", Goal: ">>)

\* C11: getProgressString gives the downloading form when the torrent is not
\* done, whatever isSeed and hasSeedRatio are; when done, the partial-seed
\* form if it is no seed and the seed form if it is, each with the goal
\* ratio if and only if hasSeedRatio; so a goal appears only when
\* hasSeedRatio holds and the torrent is done.
C11_ProgressFormChosen ==
    IsDirectProgressCall =>
        /\ ~ProgressIsDone =>
              IsDownloadingForm(result.value) /\ ~MentionsGoal(result.value)
        /\ (ProgressIsDone /\ ~ProgressIsSeed) => IsPartialSeedForm(result.value)
        /\ (ProgressIsDone /\ ProgressIsSeed) => IsSeedForm(result.value)
        /\ ProgressIsDone =>
              (MentionsGoal(result.value) <=> torrent.hasSeedRatio)
        /\ MentionsGoal(result.value) =>
              (HasGoal(result.value) /\ torrent.hasSeedRatio /\ ProgressIsDone)

C11_Witness ==
    /\ IsDirectProgressCall
    /\ ProgressIsDone
    /\ ~ProgressIsSeed
    /\ torrent.hasSeedRatio
    /\ IsPartialSeedForm(result.value)
    /\ HasGoal(result.value)

====
